---- MODULE Spec2Model ----
(***************************************************************************)
(* Model of BibleVersionCodesConverter (Python/BibleVersionCodesConverter  *)
(* .py): loadAndValidate / __load / __validate / __len__ /                 *)
(* importDataToPython.                                                     *)
(*                                                                         *)
(* A parsed XML element is a record.  A child element that an entry may    *)
(* carry (mainAbbreviation, versionName, ...) is a field of that record    *)
(* whose value is Absent when element.find() returns None, None when the   *)
(* element is there with no text (ElementTree gives .text = None), and the *)
(* text otherwise.  Documents carry no attributes, inline text or tails,   *)
(* so the checkXMLNo... helpers of BibleOrgSysGlobals (which only log) and *)
(* the attribute loops (over empty tuples) have nothing to report.         *)
(* Python asserts are enabled; an exception leaves every assignment made   *)
(* before it in place.                                                     *)
(***************************************************************************)
EXTENDS Integers, Sequences, FiniteSets, TLC

VARIABLES files, strictCheckingFlag, XMLTree, XMLFileOrFilepath,
          titleString, PROGRAM_VERSION, dateString, DataSets, diags, lastCall,
          initialAllAbbreviationsDict, codesCall

converterVars == << files, strictCheckingFlag, XMLTree, XMLFileOrFilepath,
                    titleString, PROGRAM_VERSION, dateString, DataSets, diags, lastCall >>

codesVars == << initialAllAbbreviationsDict, codesCall >>

vars == << converterVars, codesVars >>

(* ---------------------------------------------------------------- bounds *)
MaxEntries == 2

(* ------------------------------------------------------------- constants *)
Absent == "<absent>"
None == "<None>"
NoSource == "<no source>"

treeTag == "BibleVersionCodes"
headerTag == "header"
mainElementTag == "BibleVersionCodes"
compulsoryElements == << "mainAbbreviation", "versionName", "languageCode" >>
optionalElements == << "publisherName", "licence", "webLink" >>
uniqueElements == << "mainAbbreviation", "webLink" >>

DefaultPath == "../sourceXML/BibleVersionCodes.xml"
OtherPath == "other.xml"
Paths == { DefaultPath, OtherPath }

SeqToSet(s) == { s[i] : i \in 1..Len(s) }

(* ------------------------------------------------------------- documents *)
Element(tag, hdr, ref, abbr, name, lang, pub, lic, web) ==
    [ tag |-> tag, hdr |-> hdr, referenceAbbreviation |-> ref,
      mainAbbreviation |-> abbr, versionName |-> name, languageCode |-> lang,
      publisherName |-> pub, licence |-> lic, webLink |-> web ]

Entry(ref, abbr, name, lang, pub, lic, web) ==
    Element(mainElementTag, "-", ref, abbr, name, lang, pub, lic, web)

HeaderKinds == { "work", "empty", "many", "notwork", "workNoDate" }

Header(kind) ==
    Element(headerTag, kind, Absent, Absent, Absent, Absent, Absent, Absent, Absent)

Entries ==
    { Entry("R", "KJV", n, "en", Absent, "PD", Absent) : n \in { "N1", "N2" } }
    \cup { Entry("R", "WEB", "N2", "en", Absent, "PD", Absent) }
    \cup { Entry(Absent, "KJV", "N1", "en", Absent, "PD", Absent),
           Entry(Absent, "WEB", "N2", "en", Absent, "PD", Absent) }
    \cup { Entry(r, "KJV", "N1", Absent, Absent, "PD", Absent) : r \in { Absent, "R" } }
    \cup { Entry("R", Absent, "N1", "en", Absent, "PD", Absent),
           Entry("R", None, "N1", "en", Absent, Absent, Absent),
           Entry("R", "WEB", None, "en", Absent, None, Absent),
           Entry("R", "KJV", "N1", "fr", "P", Absent, "w"),
           Entry("R", "WEB", "N2", "en", "P", "PD", "w"),
           Element("note", "-", Absent, "WEB", "N2", "en", Absent, Absent, Absent) }

RECURSIVE SeqsUpTo(_, _)
SeqsUpTo(S, n) ==
    IF n = 0 THEN { << >> }
    ELSE LET shorter == SeqsUpTo(S, n - 1)
         IN  shorter \cup { Append(s, x) : s \in { t \in shorter : Len(t) = n - 1 }, x \in S }

Documents ==
    { [ tag |-> treeTag, children |-> h \o es ] :
        h \in { << >> } \cup { << Header(k) >> : k \in HeaderKinds },
        es \in SeqsUpTo(Entries, MaxEntries) }
    \cup { [ tag |-> "Other", children |-> h \o es ] :
             h \in { << >>, << Header("work") >> },
             es \in SeqsUpTo(Entries, MaxEntries) }

AltDocument ==
    [ tag |-> treeTag,
      children |-> << Header("work"), Entry(Absent, "ALT", "N3", "en", Absent, Absent, Absent) >> ]

NoTree == [ tag |-> None, children |-> << >> ]

(* ----------------------------------------------------------- diagnostics *)
Diag(level, kind, field, ID, record, value) ==
    [ level |-> level, kind |-> kind, field |-> field, ID |-> ID,
      record |-> record, value |-> value ]

NoCall ==
    [ op |-> "none", src |-> NoSource, outcome |-> "none", iterated |-> FALSE,
      result |-> << >>, loaded |-> FALSE, validated |-> FALSE ]

(* ------------------------------------------------------------------ load *)
(* Lines 120-137: what __load takes from a header element it has found.    *)
headerFields(header) ==
    CASE header.hdr = "many" ->
           [ version |-> PROGRAM_VERSION, date |-> dateString, title |-> titleString,
             exc |-> "none",
             diags |-> << Diag("info", "UnexpectedHeaderElements", "header", None, -1, None) >> ]
      [] header.hdr = "empty" ->
           [ version |-> PROGRAM_VERSION, date |-> dateString, title |-> titleString,
             exc |-> "none",
             diags |-> << Diag("info", "MissingWork", "header", None, -1, None) >> ]
      [] header.hdr = "work" ->
           [ version |-> "0.01", date |-> "2022-05-18", title |-> "Bible Version Codes",
             exc |-> "none", diags |-> << >> ]
      [] header.hdr = "workNoDate" ->
           (* work.find('date') is None: line 133 has run, line 134 raises *)
           [ version |-> "0.01", date |-> dateString, title |-> titleString,
             exc |-> "AttributeError", diags |-> << >> ]
      [] OTHER ->
           [ version |-> PROGRAM_VERSION, date |-> dateString, title |-> titleString,
             exc |-> "none",
             diags |-> << Diag("warning", "MissingWork", "header", None, -1, None) >> ]

(* __load: the instance fields after the call, its diagnostics and the     *)
(* exception that ended it ("none" when it returned).                      *)
load(path) ==
    LET root == files[path]
        kept == [ version |-> PROGRAM_VERSION, date |-> dateString, title |-> titleString ]
    IN  IF Len(root.children) = 0
        THEN (* line 113: an element without children is falsy *)
             [ tree |-> root, hdr |-> kept, exc |-> "AssertionError", diags |-> << >> ]
        ELSE IF root.tag = treeTag
        THEN LET header == root.children[1]
             IN  IF header.tag = headerTag
                 THEN LET h == headerFields(header)
                      IN  [ tree |-> [ root EXCEPT !.children = Tail(root.children) ],
                            hdr |-> [ version |-> h.version, date |-> h.date, title |-> h.title ],
                            exc |-> h.exc, diags |-> h.diags ]
                 ELSE [ tree |-> root, hdr |-> kept, exc |-> "none",
                        diags |-> << Diag("warning", "MissingHeader", headerTag, None, -1, None) >> ]
        ELSE [ tree |-> root, hdr |-> kept, exc |-> "none",
               diags |-> << Diag("error", "StructureError", treeTag, None, -1, root.tag) >> ]

(* -------------------------------------------------------------- validate *)
(* Lines 197-206: one diagnostic per compulsory element missing or blank.  *)
RECURSIVE checkCompulsory(_, _, _, _)
checkCompulsory(element, ID, j, i) ==
    IF i > Len(compulsoryElements) THEN << >>
    ELSE LET elementName == compulsoryElements[i]
             here == IF element[elementName] = Absent
                     THEN << Diag("error", "FieldMissing", elementName, ID, j, None) >>
                     ELSE IF element[elementName] = None
                     THEN << Diag("warning", "FieldBlank", elementName, ID, j, None) >>
                     ELSE << >>
         IN  here \o checkCompulsory(element, ID, j, i + 1)

(* Lines 209-216: a warning per optional element that is there but blank.  *)
RECURSIVE checkOptional(_, _, _, _)
checkOptional(element, ID, j, i) ==
    IF i > Len(optionalElements) THEN << >>
    ELSE LET elementName == optionalElements[i]
             here == IF element[elementName] = None
                     THEN << Diag("warning", "OptionalBlank", elementName, ID, j, None) >>
                     ELSE << >>
         IN  here \o checkOptional(element, ID, j, i + 1)

(* Lines 219-221: referenceAbbreviation is the one sub-element a record of *)
(* this model can carry that the schema does not declare.                  *)
checkAdditional(element, ID, j) ==
    IF element.referenceAbbreviation # Absent
    THEN << Diag("warning", "AdditionalElement", "referenceAbbreviation", ID, j,
                 element.referenceAbbreviation) >>
    ELSE << >>

(* Lines 224-229: uniqueDict[name] is the list of texts seen so far.       *)
RECURSIVE checkUnique(_, _, _, _, _)
checkUnique(element, ID, j, i, acc) ==
    IF i > Len(uniqueElements) THEN acc
    ELSE LET elementName == uniqueElements[i]
         IN  IF element[elementName] # Absent
             THEN LET text == element[elementName]
                      here == IF text \in SeqToSet(acc.uniqueDict[elementName])
                              THEN << Diag("error", "Repeated", elementName, ID, j, text) >>
                              ELSE << >>
                  IN  checkUnique(element, ID, j, i + 1,
                        [ uniqueDict |-> [ acc.uniqueDict EXCEPT
                                             ![elementName] = Append(@, text) ],
                          diags |-> acc.diags \o here ])
             ELSE checkUnique(element, ID, j, i + 1, acc)

(* Lines 157-232, from child number k (record k-1) on.                     *)
RECURSIVE validateFrom(_, _, _, _)
validateFrom(children, k, uniqueDict, out) ==
    IF k > Len(children) THEN [ exc |-> "none", diags |-> out ]
    ELSE LET element == children[k]
             j == k - 1
         IN  IF element.tag = mainElementTag
             THEN IF element.referenceAbbreviation = Absent
                  THEN (* line 194: element.find("referenceAbbreviation") is None *)
                       [ exc |-> "AttributeError", diags |-> out ]
                  ELSE LET ID == element.referenceAbbreviation
                           u == checkUnique(element, ID, j, 1,
                                  [ uniqueDict |-> uniqueDict, diags |-> << >> ])
                       IN  validateFrom(children, k + 1, u.uniqueDict,
                             out \o checkCompulsory(element, ID, j, 1)
                                 \o checkOptional(element, ID, j, 1)
                                 \o checkAdditional(element, ID, j)
                                 \o u.diags)
             ELSE validateFrom(children, k + 1, uniqueDict,
                    Append(out, Diag("warning", "UnexpectedElement", element.tag, None, j, None)))

(* __validate over a tree.                                                 *)
validate(tree) ==
    IF Len(tree.children) = 0
    THEN [ exc |-> "AssertionError", diags |-> << >> ]
    ELSE validateFrom(tree.children, 1, [ n \in SeqToSet(uniqueElements) |-> << >> ], << >>)

(* ------------------------------------------------------- loadAndValidate *)
alreadyLoaded_never == FALSE

(* Line 89: the load-once guard.                                           *)
alreadyLoaded == XMLTree # NoTree

(* Line 97: a source was given and it is not the remembered one.           *)
differentFilepath(src) == src # NoSource /\ src # XMLFileOrFilepath

validationWanted_always == TRUE

(* Line 94: __validate runs only under the host's strict checking flag.    *)
validationWanted == strictCheckingFlag

loadAndValidate(src) ==
    IF ~ alreadyLoaded
    THEN LET path == IF src = NoSource THEN DefaultPath ELSE src
             l == load(path)
             v == IF l.exc = "none" /\ validationWanted
                  THEN validate(l.tree)
                  ELSE [ exc |-> "none", diags |-> << >> ]
         IN  /\ XMLFileOrFilepath' = path
             /\ XMLTree' = l.tree
             /\ PROGRAM_VERSION' = l.hdr.version
             /\ dateString' = l.hdr.date
             /\ titleString' = l.hdr.title
             /\ diags' = l.diags \o v.diags
             /\ lastCall' = [ op |-> "loadAndValidate", src |-> src, iterated |-> FALSE,
                              result |-> << >>, loaded |-> TRUE,
                              validated |-> l.exc = "none" /\ validationWanted,
                              outcome |-> IF l.exc # "none" THEN l.exc
                                          ELSE IF v.exc # "none" THEN v.exc ELSE "ok" ]
             /\ UNCHANGED << files, strictCheckingFlag, DataSets >>
    ELSE /\ diags' = IF differentFilepath(src)
                     THEN << Diag("error", "AlreadyLoaded", "filepath", None, -1, src) >>
                     ELSE << >>
         /\ lastCall' = [ op |-> "loadAndValidate", src |-> src, iterated |-> FALSE,
                          result |-> << >>, loaded |-> FALSE, validated |-> FALSE, outcome |-> "ok" ]
         /\ UNCHANGED << files, strictCheckingFlag, XMLTree, XMLFileOrFilepath,
                         titleString, PROGRAM_VERSION, dateString, DataSets >>

(* --------------------------------------------------------------- __len__ *)
len_beforeHeaderRemoval ==
    IF XMLFileOrFilepath = NoSource THEN 0 ELSE Len(files[XMLFileOrFilepath].children)

len == Len(XMLTree.children)

(* ---------------------------------------------------- importDataToPython *)
(* Texts in the order Python's < puts them (code points).                  *)
CodePointOrder == << "ALT", "KJV", "WEB" >>
Rank(text) == CHOOSE i \in 1..Len(CodePointOrder) : CodePointOrder[i] = text

RECURSIVE insertSorted(_, _)
insertSorted(sortedSeq, text) ==
    IF sortedSeq = << >> THEN << text >>
    ELSE IF Rank(text) < Rank(Head(sortedSeq))
    THEN << text >> \o sortedSeq
    ELSE << Head(sortedSeq) >> \o insertSorted(Tail(sortedSeq), text)

sortTexts_unsorted(list) == list

RECURSIVE sortTexts(_)
sortTexts(list) ==
    IF list = << >> THEN << >>
    ELSE insertSorted(sortTexts(SubSeq(list, 1, Len(list) - 1)), list[Len(list)])

(* sorted(myAbbrevList), line 351: comparing None with anything raises.    *)
sorted(list) ==
    IF Len(list) >= 2 /\ None \in SeqToSet(list)
    THEN [ exc |-> "TypeError", value |-> << >> ]
    ELSE [ exc |-> "none", value |-> sortTexts(list) ]

fieldsOf_nameFromLanguage(element) ==
    [ mainAbbreviation |-> element.mainAbbreviation,
      versionName |-> element.languageCode,
      languageCode |-> element.languageCode,
      publisherName |-> IF element.publisherName = Absent THEN None ELSE element.publisherName,
      licence |-> IF element.licence = Absent THEN None ELSE element.licence,
      webLink |-> IF element.webLink = Absent THEN None ELSE element.webLink ]

(* Lines 300-307: the six values read from one element; an optional one is *)
(* None when its element is missing.                                       *)
fieldsOf(element) ==
    [ mainAbbreviation |-> element.mainAbbreviation,
      versionName |-> element.versionName,
      languageCode |-> element.languageCode,
      publisherName |-> IF element.publisherName = Absent THEN None ELSE element.publisherName,
      licence |-> IF element.licence = Absent THEN None ELSE element.licence,
      webLink |-> IF element.webLink = Absent THEN None ELSE element.webLink ]

truthy_always(value) == TRUE

(* "if publisherName:" -- None is falsy, a text read from XML is not empty *)
truthy(value) == value # None

(* A dict literal with its conditionally added keys (lines 315-318 etc.)   *)
entryDict(always, conditional, f) ==
    [ key \in always \cup { c \in conditional : truthy(f[c]) } |-> f[key] ]

setItem_keepFirst(dict, key, value) ==
    IF key \in DOMAIN dict THEN dict
    ELSE [ k \in DOMAIN dict \cup { key } |-> IF k = key THEN value ELSE dict[k] ]

(* myAbbrevDict[mainAbbreviation] = entry, line 319                        *)
setItem(dict, key, value) ==
    [ k \in DOMAIN dict \cup { key } |-> IF k = key THEN value ELSE dict[k] ]

appendItem_overwrite(dict, key, value) ==
    [ k \in DOMAIN dict \cup { key } |-> IF k = key THEN << value >> ELSE dict[k] ]

(* myNameDict[versionName].append( entry ) on a defaultdict(list)          *)
appendItem(dict, key, value) ==
    [ k \in DOMAIN dict \cup { key } |->
        IF k = key
        THEN Append(IF key \in DOMAIN dict THEN dict[key] ELSE << >>, value)
        ELSE dict[k] ]

EmptyViews ==
    [ myAbbrevList |-> << >>, myAbbrevDict |-> << >>, myNameDict |-> << >>,
      myLanguageDict |-> << >>, myPublisherDict |-> << >>, myLicenseDict |-> << >>,
      myWebLinkDict |-> << >> ]

(* Lines 313-349: one turn of the loop for an element whose compulsory     *)
(* elements were all found.                                                *)
indexElement(views, element) ==
    LET f == fieldsOf(element)
    IN  [ myAbbrevList |-> Append(views.myAbbrevList, f.mainAbbreviation),
          myAbbrevDict |->
            setItem(views.myAbbrevDict, f.mainAbbreviation,
                    entryDict({ "versionName", "languageCode" },
                              { "publisherName", "licence", "webLink" }, f)),
          myNameDict |->
            appendItem(views.myNameDict, f.versionName,
                       entryDict({ "mainAbbreviation", "languageCode" },
                                 { "publisherName", "licence", "webLink" }, f)),
          myLanguageDict |->
            appendItem(views.myLanguageDict, f.languageCode,
                       entryDict({ "mainAbbreviation", "versionName" },
                                 { "publisherName", "licence", "webLink" }, f)),
          myPublisherDict |->
            IF truthy(f.publisherName)
            THEN appendItem(views.myPublisherDict, f.publisherName,
                            entryDict({ "mainAbbreviation", "versionName", "languageCode" },
                                      { "licence", "webLink" }, f))
            ELSE views.myPublisherDict,
          myLicenseDict |->
            IF truthy(f.licence)
            THEN appendItem(views.myLicenseDict, f.licence,
                            entryDict({ "mainAbbreviation", "versionName", "languageCode" },
                                      { "publisherName", "webLink" }, f))
            ELSE views.myLicenseDict,
          myWebLinkDict |->
            IF truthy(f.webLink)
            THEN appendItem(views.myWebLinkDict, f.webLink,
                            entryDict({ "mainAbbreviation", "versionName", "languageCode" },
                                      { "publisherName", "licence" }, f))
            ELSE views.myWebLinkDict ]

(* Lines 297-349 from child number k on; .text of a compulsory element     *)
(* that find() did not return raises AttributeError.                       *)
RECURSIVE indexFrom(_, _, _)
indexFrom(children, k, views) ==
    IF k > Len(children) THEN [ exc |-> "none", views |-> views ]
    ELSE LET element == children[k]
         IN  IF \E i \in 1..Len(compulsoryElements) : element[compulsoryElements[i]] = Absent
             THEN [ exc |-> "AttributeError", views |-> views ]
             ELSE indexFrom(children, k + 1, indexElement(views, element))

buildDataSets_partial(tree) ==
    LET r == indexFrom(tree.children, 1, EmptyViews)
        s == sorted(r.views.myAbbrevList)
    IN  [ exc |-> IF r.exc # "none" THEN r.exc ELSE s.exc,
          value |-> << [ AbbreviationsList |-> s.value,
                         AbbreviationsDict |-> r.views.myAbbrevDict,
                         NamesDict |-> r.views.myNameDict,
                         LanguageDict |-> r.views.myLanguageDict,
                         PublisherDict |-> r.views.myPublisherDict,
                         LicenceDict |-> r.views.myLicenseDict,
                         WebLinkDict |-> r.views.myWebLinkDict ] >> ]

(* Lines 294-357: the dataset dict, or the exception that stopped it.      *)
buildDataSets(tree) ==
    LET r == indexFrom(tree.children, 1, EmptyViews)
        s == sorted(r.views.myAbbrevList)
    IN  IF r.exc # "none" THEN [ exc |-> r.exc, value |-> << >> ]
        ELSE IF s.exc # "none" THEN [ exc |-> s.exc, value |-> << >> ]
        ELSE [ exc |-> "none",
               value |-> << [ AbbreviationsList |-> s.value,
                              AbbreviationsDict |-> r.views.myAbbrevDict,
                              NamesDict |-> r.views.myNameDict,
                              LanguageDict |-> r.views.myLanguageDict,
                              PublisherDict |-> r.views.myPublisherDict,
                              LicenceDict |-> r.views.myLicenseDict,
                              WebLinkDict |-> r.views.myWebLinkDict ] >> ]

alreadyImported_never == FALSE

(* Line 290: self.__DataSets is a non-empty dict once an import has run.   *)
alreadyImported == DataSets # << >>

importDataToPython_clearing ==
    IF Len(XMLTree.children) = 0
    THEN /\ lastCall' = [ op |-> "importDataToPython", src |-> NoSource, iterated |-> FALSE,
                          result |-> << >>, loaded |-> FALSE, validated |-> FALSE,
                          outcome |-> "AssertionError" ]
         /\ diags' = << >>
         /\ UNCHANGED << files, strictCheckingFlag, XMLTree, XMLFileOrFilepath,
                         titleString, PROGRAM_VERSION, dateString, DataSets >>
    ELSE LET b == buildDataSets(XMLTree)
         IN  /\ DataSets' = b.value
             /\ XMLTree' = [ XMLTree EXCEPT !.children = << >> ]
             /\ lastCall' = [ op |-> "importDataToPython", src |-> NoSource, iterated |-> TRUE,
                              result |-> b.value, loaded |-> FALSE, validated |-> FALSE,
                              outcome |-> IF b.exc = "none" THEN "ok" ELSE b.exc ]
             /\ diags' = << >>
             /\ UNCHANGED << files, strictCheckingFlag, XMLFileOrFilepath,
                             titleString, PROGRAM_VERSION, dateString >>

importDataToPython ==
    IF Len(XMLTree.children) = 0
    THEN (* line 289: no tree yet, or a tree without children *)
         /\ lastCall' = [ op |-> "importDataToPython", src |-> NoSource, iterated |-> FALSE,
                          result |-> << >>, loaded |-> FALSE, validated |-> FALSE, outcome |-> "AssertionError" ]
         /\ diags' = << >>
         /\ UNCHANGED << files, strictCheckingFlag, XMLTree, XMLFileOrFilepath,
                         titleString, PROGRAM_VERSION, dateString, DataSets >>
    ELSE IF alreadyImported
    THEN /\ lastCall' = [ op |-> "importDataToPython", src |-> NoSource, iterated |-> FALSE,
                          result |-> DataSets, loaded |-> FALSE, validated |-> FALSE, outcome |-> "ok" ]
         /\ diags' = << >>
         /\ UNCHANGED << files, strictCheckingFlag, XMLTree, XMLFileOrFilepath,
                         titleString, PROGRAM_VERSION, dateString, DataSets >>
    ELSE LET b == buildDataSets(XMLTree)
         IN  /\ DataSets' = b.value
             /\ lastCall' = [ op |-> "importDataToPython", src |-> NoSource, iterated |-> TRUE,
                              result |-> b.value, loaded |-> FALSE, validated |-> FALSE,
                              outcome |-> IF b.exc = "none" THEN "ok" ELSE b.exc ]
             /\ diags' = << >>
             /\ UNCHANGED << files, strictCheckingFlag, XMLTree, XMLFileOrFilepath,
                             titleString, PROGRAM_VERSION, dateString >>

(* ----------------------------------------------------- addToAllCodesDict *)
(* The nested helper of importDataToPython (lines 278-286).  Nothing in    *)
(* the class calls it; it is modelled as an operation of its own on the    *)
(* dict it is handed, under the specification SpecCodes.                   *)
Unbound == "<unbound>"
Missing == "<missing>"
MultipleValues == "MultipleValues"
SurfaceAbbreviations == { "AV", "KJV", "WEB" }
CanonicalKeys == { "A", "B" }

(* Every dict a caller can hand in: some abbreviations mapped, each to a   *)
(* canonical key or to the marker.                                         *)
CodeTables ==
    UNION { [ D -> CanonicalKeys \cup { MultipleValues } ] : D \in SUBSET SurfaceAbbreviations }

NoCodesCall ==
    [ op |-> "none", given |-> Missing, callersKey |-> Missing, before |-> Missing,
      outcome |-> "none", warned |-> FALSE ]

(* The name referenceAbbreviation as lines 282-285 find it.  The helper    *)
(* has no such parameter, importDataToPython has no such local and the     *)
(* module no such global: whatever canonical key the caller is working on, *)
(* the lookup finds nothing.                                               *)
referenceAbbreviation(callersKey) == Unbound

addToAllCodesDict(givenUCAbbreviation, abbrevType, callersKey) ==
    LET table == initialAllAbbreviationsDict
        ref == referenceAbbreviation(callersKey)
        before == IF givenUCAbbreviation \in DOMAIN table
                  THEN table[givenUCAbbreviation] ELSE Missing
        call(outcome, warned) ==
            [ op |-> "addToAllCodesDict", given |-> givenUCAbbreviation,
              callersKey |-> callersKey, before |-> before,
              outcome |-> outcome, warned |-> warned ]
    IN  IF ref = Unbound
        THEN (* NameError at line 282 (key held) or line 285 (key new) *)
             /\ codesCall' = call("NameError", FALSE)
             /\ UNCHANGED initialAllAbbreviationsDict
        ELSE IF givenUCAbbreviation \in DOMAIN table /\ table[givenUCAbbreviation] # ref
        THEN /\ initialAllAbbreviationsDict' = setItem(table, givenUCAbbreviation, MultipleValues)
             /\ codesCall' = call("ok", TRUE)
        ELSE /\ initialAllAbbreviationsDict' = setItem(table, givenUCAbbreviation, ref)
             /\ codesCall' = call("ok", FALSE)

Init ==
    /\ files \in { [ p \in Paths |-> IF p = DefaultPath THEN d ELSE AltDocument ] : d \in Documents }
    /\ strictCheckingFlag \in BOOLEAN
    /\ XMLTree = NoTree
    /\ XMLFileOrFilepath = NoSource
    /\ titleString = ""
    /\ PROGRAM_VERSION = ""
    /\ dateString = ""
    /\ DataSets = << >>
    /\ diags = << >>
    /\ lastCall = NoCall
    /\ initialAllAbbreviationsDict = << >>
    /\ codesCall = NoCodesCall

Next ==
    \/ (\E src \in { NoSource } \cup Paths : loadAndValidate(src)) /\ UNCHANGED codesVars
    \/ importDataToPython /\ UNCHANGED codesVars

Spec == Init /\ [][Next]_vars

(* The helper on its own: a constructed converter, any dict handed in.     *)
InitCodes ==
    /\ files = [ p \in Paths |-> AltDocument ]
    /\ strictCheckingFlag = FALSE
    /\ XMLTree = NoTree
    /\ XMLFileOrFilepath = NoSource
    /\ titleString = ""
    /\ PROGRAM_VERSION = ""
    /\ dateString = ""
    /\ DataSets = << >>
    /\ diags = << >>
    /\ lastCall = NoCall
    /\ initialAllAbbreviationsDict \in CodeTables
    /\ codesCall = NoCodesCall

NextCodes ==
    \E givenUCAbbreviation \in SurfaceAbbreviations, callersKey \in CanonicalKeys :
        addToAllCodesDict(givenUCAbbreviation, "main", callersKey) /\ UNCHANGED converterVars

SpecCodes == InitCodes /\ [][NextCodes]_vars

(* ================================================================ claims *)
(* The document that was parsed, the entries kept from it, and helpers.    *)
Parsed == XMLFileOrFilepath # NoSource
ParsedRoot == files[XMLFileOrFilepath]
entries == XMLTree.children
IsText(value) == value # Absent /\ value # None
CompleteEntry(e) ==
    /\ e.tag = mainElementTag
    /\ \A i \in 1..Len(compulsoryElements) : IsText(e[compulsoryElements[i]])
FreshLoad == lastCall.op = "loadAndValidate" /\ lastCall.loaded
Built == DataSets # << >>
Views == DataSets[1]
DiagsWhere(kind, field, record) ==
    { i \in 1..Len(diags) :
        diags[i].kind = kind /\ diags[i].field = field /\ diags[i].record = record }

(* C1: a load of a document whose root tag is not the catalogue tag fails  *)
(* and leaves the instance unloaded: no tree retained, guard not set.      *)
C1_RootMismatchLeavesUnloaded ==
    (Parsed /\ lastCall.op = "loadAndValidate" /\ ParsedRoot.tag # treeTag
       /\ Len(ParsedRoot.children) > 0)
        => (lastCall.outcome # "ok" /\ XMLTree = NoTree)

(* C2: once a tree is loaded, a later loadAndValidate call changes neither *)
(* the tree, the remembered source nor the header fields, and it reports   *)
(* an error exactly when a source was given that is not the remembered one *)
C2_LoadOnce ==
    [][ (XMLTree # NoTree /\ lastCall'.op = "loadAndValidate")
          => /\ XMLTree' = XMLTree
             /\ XMLFileOrFilepath' = XMLFileOrFilepath
             /\ << titleString', PROGRAM_VERSION', dateString' >>
                  = << titleString, PROGRAM_VERSION, dateString >>
             /\ (\E i \in 1..Len(diags') : diags'[i].level = "error")
                  <=> (lastCall'.src # NoSource /\ lastCall'.src # XMLFileOrFilepath) ]_vars

C2_Witness ==
    /\ XMLTree # NoTree
    /\ XMLFileOrFilepath = DefaultPath
    /\ XMLTree.children # Tail(AltDocument.children)
    /\ lastCall.op = "loadAndValidate" /\ ~ lastCall.loaded
    /\ lastCall.src = OtherPath
    /\ Len(diags) = 1 /\ diags[1].kind = "AlreadyLoaded" /\ diags[1].value = OtherPath

(* C3: after the first import that returned, every later import returns    *)
(* the cached datasets, equal to the first, without running the loop.      *)
C3_Memoized ==
    [][ Built
          => /\ DataSets' = DataSets
             /\ lastCall'.op = "importDataToPython"
                  => /\ lastCall'.outcome = "ok"
                     /\ ~ lastCall'.iterated
                     /\ lastCall'.result = DataSets ]_vars

C3_Witness ==
    /\ Built
    /\ lastCall.op = "importDataToPython"
    /\ ~ lastCall.iterated
    /\ lastCall.result = DataSets

(* C4: when the root tag matches and __load itself returned, no defect of  *)
(* a record aborts loadAndValidate: the call completes.                    *)
C4_ValidationNeverAborts ==
    (Parsed /\ FreshLoad /\ ParsedRoot.tag = treeTag /\ Len(entries) > 0
       /\ ParsedRoot.children[1].hdr # "workNoDate")
        => lastCall.outcome = "ok"

(* C5: after a validating load, every entry that lacks a required element  *)
(* has exactly one missing-field error for it, and that error carries the  *)
(* entry's mainAbbreviation as ID together with its record index.          *)
C5_MissingFieldNamed ==
    (FreshLoad /\ strictCheckingFlag)
        => \A k \in 1..Len(entries) : \A i \in 1..Len(compulsoryElements) :
             LET e == entries[k]
                 name == compulsoryElements[i]
             IN  (e.tag = mainElementTag /\ IsText(e.mainAbbreviation) /\ e[name] = Absent)
                   => /\ Cardinality(DiagsWhere("FieldMissing", name, k - 1)) = 1
                      /\ \A d \in DiagsWhere("FieldMissing", name, k - 1) :
                           diags[d].ID = e.mainAbbreviation

(* C6: an entry without languageCode, among otherwise complete entries, is *)
(* kept in the tree, and an import completes with that entry in            *)
(* AbbreviationsList and AbbreviationsDict.                                *)
C6_IncompleteEntryIndexed ==
    \A k \in 1..Len(entries) :
        ( /\ lastCall.op = "importDataToPython"
          /\ entries[k].tag = mainElementTag
          /\ IsText(entries[k].mainAbbreviation) /\ IsText(entries[k].versionName)
          /\ entries[k].languageCode = Absent
          /\ \A m \in 1..Len(entries) : m # k => CompleteEntry(entries[m]) )
            => /\ lastCall.outcome = "ok"
               /\ Built
               /\ entries[k].mainAbbreviation \in DOMAIN Views.AbbreviationsDict

(* C7: after a validating load of two entries with the same                *)
(* mainAbbreviation there is exactly one repeated-value error for          *)
(* mainAbbreviation, and it names the earlier and the later record.        *)
RecordsNamed(d) == { d.record }
RepeatedDiags(text) ==
    { i \in 1..Len(diags) :
        diags[i].kind = "Repeated" /\ diags[i].field = "mainAbbreviation"
          /\ diags[i].value = text }
C7_DuplicateNamesBoth ==
    (FreshLoad /\ strictCheckingFlag /\ ParsedRoot.tag = treeTag /\ lastCall.outcome = "ok")
        => \A k \in 1..Len(entries) : \A m \in 1..Len(entries) :
             ( /\ k < m
               /\ CompleteEntry(entries[k]) /\ CompleteEntry(entries[m])
               /\ entries[k].mainAbbreviation = entries[m].mainAbbreviation
               /\ Len(entries) = 2 )
               => /\ Cardinality(RepeatedDiags(entries[k].mainAbbreviation)) = 1
                  /\ \A d \in RepeatedDiags(entries[k].mainAbbreviation) :
                       { k - 1, m - 1 } \subseteq RecordsNamed(diags[d])

(* C8: AbbreviationsDict is keyed by the mainAbbreviation values of the    *)
(* entries, and each key holds versionName, languageCode and the optional  *)
(* fields that have a value of the last entry with that mainAbbreviation;  *)
(* the import emits no diagnostic.                                         *)
LastWith(text) ==
    entries[CHOOSE k \in 1..Len(entries) :
              /\ entries[k].mainAbbreviation = text
              /\ \A m \in (k + 1)..Len(entries) : entries[m].mainAbbreviation # text]
C8_LastWriteWins ==
    Built =>
      /\ DOMAIN Views.AbbreviationsDict = { entries[k].mainAbbreviation : k \in 1..Len(entries) }
      /\ \A text \in DOMAIN Views.AbbreviationsDict :
           LET e == LastWith(text)
               held == Views.AbbreviationsDict[text]
           IN  /\ held.versionName = e.versionName
               /\ held.languageCode = e.languageCode
               /\ \A i \in 1..Len(optionalElements) :
                    LET name == optionalElements[i]
                    IN  IF IsText(e[name])
                        THEN name \in DOMAIN held /\ held[name] = e[name]
                        ELSE name \notin DOMAIN held
      /\ lastCall.op = "importDataToPython" => diags = << >>

C8_Witness ==
    /\ Built
    /\ Len(entries) = 2
    /\ entries[1].mainAbbreviation = entries[2].mainAbbreviation
    /\ entries[1].versionName # entries[2].versionName
    /\ Views.AbbreviationsDict[entries[2].mainAbbreviation].versionName = entries[2].versionName

(* C9 as stated: every entry finds its own versionName under its           *)
(* mainAbbreviation in AbbreviationsDict.                                  *)
C9_RoundTripAllEntries ==
    Built => \A k \in 1..Len(entries) :
               Views.AbbreviationsDict[entries[k].mainAbbreviation].versionName
                 = entries[k].versionName

(* C9 amended: every entry that is the last one in document order with its *)
(* mainAbbreviation finds its own versionName under that key.              *)
C9_RoundTripLastEntries ==
    Built => \A k \in 1..Len(entries) :
               (\A m \in (k + 1)..Len(entries) :
                    entries[m].mainAbbreviation # entries[k].mainAbbreviation)
                 => Views.AbbreviationsDict[entries[k].mainAbbreviation].versionName
                      = entries[k].versionName

C9_Witness ==
    /\ Built
    /\ \E k \in 1..Len(entries) : \E m \in (k + 1)..Len(entries) :
         /\ entries[m].mainAbbreviation = entries[k].mainAbbreviation
         /\ entries[m].versionName # entries[k].versionName
         /\ Views.AbbreviationsDict[entries[k].mainAbbreviation].versionName
              = entries[m].versionName

(* C10: when the mainAbbreviation values of the entries are distinct, the  *)
(* converter's length, the length of AbbreviationsList and the number of   *)
(* keys of AbbreviationsDict are the same.                                 *)
DistinctAbbreviations ==
    \A k \in 1..Len(entries) : \A m \in 1..Len(entries) :
        k # m => entries[k].mainAbbreviation # entries[m].mainAbbreviation
C10_LengthsAgree ==
    (Built /\ DistinctAbbreviations)
        => /\ len = Len(Views.AbbreviationsList)
           /\ len = Cardinality(DOMAIN Views.AbbreviationsDict)

C10_Witness ==
    /\ Built /\ DistinctAbbreviations
    /\ Len(entries) >= 2
    /\ ParsedRoot.children[1].tag = headerTag
    /\ \A k \in 1..Len(entries) : CompleteEntry(entries[k])
    /\ Len(Views.AbbreviationsList) = Len(entries)

(* C11: in every one-to-many view, the keys are the values of the field    *)
(* among the entries that qualify, and the bucket of a key holds one       *)
(* member per qualifying entry with that value, in document order.         *)
SecondaryIndexes ==
    << [ view |-> "NamesDict", field |-> "versionName", optional |-> FALSE ],
       [ view |-> "LanguageDict", field |-> "languageCode", optional |-> FALSE ],
       [ view |-> "PublisherDict", field |-> "publisherName", optional |-> TRUE ],
       [ view |-> "LicenceDict", field |-> "licence", optional |-> TRUE ],
       [ view |-> "WebLinkDict", field |-> "webLink", optional |-> TRUE ] >>
Qualifying(ix) ==
    { j \in 1..Len(entries) : ix.optional => IsText(entries[j][ix.field]) }
PositionsWith(ix, key) == { j \in Qualifying(ix) : entries[j][ix.field] = key }
NthOf(positions, i) ==
    CHOOSE j \in positions : Cardinality({ x \in positions : x <= j }) = i
MemberOf(member, e) == \A key \in DOMAIN member : member[key] = e[key]
C11_BucketsKeepEveryMember ==
    Built => \A n \in 1..Len(SecondaryIndexes) :
      LET ix == SecondaryIndexes[n]
          index == Views[ix.view]
      IN  /\ DOMAIN index = { entries[j][ix.field] : j \in Qualifying(ix) }
          /\ \A key \in DOMAIN index :
               /\ Len(index[key]) = Cardinality(PositionsWith(ix, key))
               /\ \A i \in 1..Len(index[key]) :
                    /\ "mainAbbreviation" \in DOMAIN index[key][i]
                    /\ MemberOf(index[key][i], entries[NthOf(PositionsWith(ix, key), i)])

C11_Witness ==
    /\ Built
    /\ Len(entries) = 2
    /\ entries[1].languageCode = entries[2].languageCode
    /\ entries[1].mainAbbreviation # entries[2].mainAbbreviation
    /\ Len(Views.LanguageDict[entries[1].languageCode]) = 2
    /\ Views.LanguageDict[entries[1].languageCode][1].mainAbbreviation
         = entries[1].mainAbbreviation
    /\ "PD" \in DOMAIN Views.LicenceDict /\ Len(Views.LicenceDict["PD"]) = 2

(* C12: for publisherName, licence and webLink, the members of the view    *)
(* are as many as the entries that have a value for the field, each such   *)
(* entry is found under its value, and an entry without a value for the    *)
(* field gives the view no key and no member.                              *)
RECURSIVE TotalMembers(_, _)
TotalMembers(index, keys) ==
    IF keys = { } THEN 0
    ELSE LET key == CHOOSE k \in keys : TRUE
         IN  Len(index[key]) + TotalMembers(index, keys \ { key })
OptionalIndexes == { n \in 1..Len(SecondaryIndexes) : SecondaryIndexes[n].optional }
C12_OptionalIndexMembership ==
    Built => \A n \in OptionalIndexes :
      LET ix == SecondaryIndexes[n]
          index == Views[ix.view]
          having == { j \in 1..Len(entries) : IsText(entries[j][ix.field]) }
      IN  /\ TotalMembers(index, DOMAIN index) = Cardinality(having)
          /\ \A j \in having :
               /\ entries[j][ix.field] \in DOMAIN index
               /\ \E i \in 1..Len(index[entries[j][ix.field]]) :
                    MemberOf(index[entries[j][ix.field]][i], entries[j])
          /\ None \notin DOMAIN index
          /\ Absent \notin DOMAIN index

C12_Witness ==
    /\ Built
    /\ Len(entries) = 2
    /\ IsText(entries[1].publisherName) /\ ~ IsText(entries[2].publisherName)
    /\ ~ IsText(entries[1].licence) /\ IsText(entries[2].licence)
    /\ TotalMembers(Views.PublisherDict, DOMAIN Views.PublisherDict) = 1
    /\ TotalMembers(Views.LicenceDict, DOMAIN Views.LicenceDict) = 1

(* C13: AbbreviationsList is in ascending order and holds every            *)
(* mainAbbreviation as many times as it occurs among the entries, so it is *)
(* as long as the entry sequence.                                          *)
Occurrences(seq, x) == Cardinality({ i \in 1..Len(seq) : seq[i] = x })
EntryAbbreviations == [ j \in 1..Len(entries) |-> entries[j].mainAbbreviation ]
C13_SortedPermutation ==
    Built =>
      LET list == Views.AbbreviationsList
      IN  /\ Len(list) = Len(entries)
          /\ \A i \in 1..(Len(list) - 1) : Rank(list[i]) <= Rank(list[i + 1])
          /\ \A x \in SeqToSet(list) \cup SeqToSet(EntryAbbreviations) :
               Occurrences(list, x) = Occurrences(EntryAbbreviations, x)

C13_Witness ==
    /\ Built
    /\ EntryAbbreviations = << "WEB", "KJV" >>
    /\ Views.AbbreviationsList = << "KJV", "WEB" >>

(* C14: a load of a document with the right root but no header, or with a  *)
(* header without a work element, completes, leaves title, version and     *)
(* date empty, logs something that is not an error, and keeps every entry  *)
(* child of the root.                                                      *)
NoIdentifyingHeader(root) ==
    \/ Len(root.children) = 0
    \/ root.children[1].tag # headerTag
    \/ root.children[1].hdr \in { "empty", "notwork" }
EntryChildren(root) ==
    IF Len(root.children) > 0 /\ root.children[1].tag = headerTag
    THEN Tail(root.children) ELSE root.children
C14_MissingHeaderTolerated ==
    (Parsed /\ FreshLoad /\ ParsedRoot.tag = treeTag /\ NoIdentifyingHeader(ParsedRoot))
        => /\ lastCall.outcome = "ok"
           /\ titleString = "" /\ PROGRAM_VERSION = "" /\ dateString = ""
           /\ entries = EntryChildren(ParsedRoot)
           /\ \E i \in 1..Len(diags) :
                diags[i].field = "header" /\ diags[i].level # "error"

(* C15: an import changes neither the tree nor the header fields.          *)
C15_ImportLeavesCatalogue ==
    [][ lastCall'.op = "importDataToPython"
          => /\ XMLTree' = XMLTree
             /\ << titleString', PROGRAM_VERSION', dateString' >>
                  = << titleString, PROGRAM_VERSION, dateString >> ]_vars

C15_Witness ==
    /\ Built
    /\ lastCall.op = "importDataToPython" /\ lastCall.iterated
    /\ Len(entries) = 2
    /\ titleString # ""

(* C17: a document with the right root and no entry child, with or without *)
(* a header, loads without failure, and an import of it returns seven      *)
(* empty views.                                                            *)
ZeroEntryDocument(root) ==
    /\ root.tag = treeTag
    /\ root.children \in { << >>, << Header("work") >> }
C17_EmptyCatalogueAccepted ==
    (Parsed /\ ZeroEntryDocument(ParsedRoot))
        => /\ lastCall.op = "loadAndValidate" => lastCall.outcome = "ok"
           /\ lastCall.op = "importDataToPython"
                => /\ lastCall.outcome = "ok"
                   /\ Built
                   /\ Views.AbbreviationsList = << >>
                   /\ \A view \in { "AbbreviationsDict", "NamesDict", "LanguageDict",
                                    "PublisherDict", "LicenceDict", "WebLinkDict" } :
                        DOMAIN Views[view] = { }

(* C18 as stated: every call that loads a document runs the validation     *)
(* pass, whatever the host's flag.                                         *)
LoadReturns ==
    /\ Len(ParsedRoot.children) > 0
    /\ ~ (ParsedRoot.tag = treeTag /\ ParsedRoot.children[1].hdr = "workNoDate")
C19_CacheOnlyWhenComplete ==
    /\ [][ (lastCall'.op = "importDataToPython" /\ lastCall'.outcome # "ok")
             => (DataSets = << >> /\ DataSets' = << >> /\ XMLTree' = XMLTree) ]_vars
    /\ [] ( (lastCall.op = "importDataToPython" /\ lastCall.result # << >>)
              => /\ lastCall.outcome = "ok"
                 /\ Len(lastCall.result[1].AbbreviationsList) = Len(entries)
                 /\ \A j \in 1..Len(entries) : \A i \in 1..Len(compulsoryElements) :
                      entries[j][compulsoryElements[i]] # Absent )

C19_Witness ==
    /\ lastCall.op = "importDataToPython"
    /\ lastCall.outcome = "AttributeError"
    /\ Len(entries) = 2
    /\ CompleteEntry(entries[1])
    /\ entries[2].languageCode = Absent
    /\ DataSets = << >>

(* C20: only children with the entry tag contribute to the views: the list *)
(* of abbreviations is as long as the number of such children.             *)
C20_OnlyEntriesIndexed ==
    Built => Len(Views.AbbreviationsList)
               = Cardinality({ j \in 1..Len(entries) : entries[j].tag = mainElementTag })

(* C16: an abbreviation held with one canonical key and added with another *)
(* gets the marker and a warning; an abbreviation holding the marker keeps *)
(* it; adding the key it already holds changes nothing and warns nothing.  *)
HeldNow ==
    IF codesCall.given \in DOMAIN initialAllAbbreviationsDict
    THEN initialAllAbbreviationsDict[codesCall.given] ELSE Missing
C16_AmbiguityIsSticky ==
    codesCall.op = "addToAllCodesDict"
        => /\ codesCall.before \notin { Missing, MultipleValues, codesCall.callersKey }
                => (HeldNow = MultipleValues /\ codesCall.warned)
           /\ codesCall.before = MultipleValues => HeldNow = MultipleValues
           /\ codesCall.before = codesCall.callersKey
                => (HeldNow = codesCall.callersKey /\ ~ codesCall.warned)
====
